---- MODULE Spec2Model ----
(***************************************************************************)
(* Model of the migration facade of gostratum/dbx (package migrate) and    *)
(* of the runner it drives (migrate/internal.Runner), which delegates to   *)
(* golang-migrate v4 with the postgres database driver.                    *)
(*                                                                         *)
(* The database holds the marker table (at most one row: version, dirty),  *)
(* the schema objects created by the steps, and one advisory lock.  Every  *)
(* facade call is a client walking through the statements the call issues: *)
(* validate, create the runner (which ensures the marker table under the   *)
(* advisory lock), lock, read the marker, run the delta step by step,      *)
(* unlock, close.                                                          *)
(***************************************************************************)
EXTENDS Integers, Sequences, FiniteSets, TLC

\* Highest version number a migration file of the source may carry.
MaxVersion == 3

\* Most steps of one source that have a rejected or a missing body.
MaxFaults == 1

Versions == 1..MaxVersion

\* Clients that may call the facade; SeqClients is the single caller of the
\* sequential specification.
Clients == {"a", "b"}
SeqClients == {"a"}

VARIABLES
    source,       \* the resolved migration set: version -> [up, down]
    tableExists,  \* the marker table exists
    rows,         \* rows of the marker table: <<>> or <<[version, dirty]>>
    schema,       \* versions whose up SQL took effect and was not reverted
    lockHolders,  \* sessions holding the advisory lock
    pc,           \* position of each client in its facade call
    call,         \* the running call of each client: [op, arg, cfg]
    runnerOpen,   \* the client's runner (source + connection) is open
    queue,        \* the channel between read* and runMigrations
    ret,          \* the error the running call is going to return
    ran,          \* SQL bodies executed by the running call: <<version, dir>>
    pre,          \* marker rows and schema when the running call started
    result,       \* how each client's most recent completed call ended:
                  \* "none", "upOK" (an Up returned nil), "ok" (another call
                  \* returned nil), "ErrLockTimeout" or "failed"
    forced,       \* Force or Drop has been used on this database
    rt,           \* Down calls made since an Up on a fresh marker (-1: no
                  \* such round trip is under way)
    rtFailed,     \* some call of the round trip returned a failure
    probe,        \* the last call of a function that touches no database:
                  \* [fn, in, out]
    files,        \* MigrationRunner: the .sql files under its directory,
                  \* path -> "ok" or "bad" (SQL the database rejects)
    dbxTable,     \* the dbx_migrations table exists
    dbxMigrations,\* the filename column of dbx_migrations
    executed,     \* paths of the files whose SQL was executed and committed
    mrTodo,       \* files the running RunMigrations has still to look at
    mrRan,        \* paths the running RunMigrations has executed
    mrPc,         \* position of RunMigrations: "idle", "files", "done"
    mrRet,        \* the error RunMigrations returns
    metrics,      \* MigrationMetrics: the operations counter and the count
                  \* of observations of the duration histogram, per labels
    fnCalls       \* how many times a wrapped operation has been called

vars == <<source, tableExists, rows, schema, lockHolders, pc, call,
          runnerOpen, queue, ret, ran, pre, result, forced, rt, rtFailed,
          probe, files, dbxTable, dbxMigrations, executed, mrTodo, mrRan,
          mrPc, mrRet, metrics, fnCalls>>

dbVars == <<tableExists, rows, schema>>
histVars == <<result, forced, rt, rtFailed>>
\* What no call of the migration facade touches.
mrVars == <<files, dbxTable, dbxMigrations, executed, mrTodo, mrRan, mrPc,
            mrRet>>
mxVars == <<metrics, fnCalls>>
sideVars == <<probe, mrVars, mxVars>>

----------------------------------------------------------------------------
\* The migration source (golang-migrate source driver over the directory or
\* the embedded bundle).

\* A step always has an up file; its down file may be missing.  "bad" is a
\* body whose SQL the database rejects.
Healthy == [up |-> "ok", down |-> "ok"]
StepKinds == {Healthy, [up |-> "bad", down |-> "ok"],
              [up |-> "ok", down |-> "bad"], [up |-> "ok", down |-> "none"]}

SrcVersions == DOMAIN source

Min(S) == CHOOSE x \in S : \A y \in S : x <= y
Max(S) == CHOOSE x \in S : \A y \in S : y <= x

\* source.Driver.First / Next / Prev: 0 stands for os.ErrNotExist.
First == IF SrcVersions = {} THEN 0 ELSE Min(SrcVersions)

NextVersion(v) ==
    LET later == {w \in SrcVersions : w > v}
    IN IF v \notin SrcVersions \/ later = {} THEN 0 ELSE Min(later)

PrevVersion(v) ==
    LET earlier == {w \in SrcVersions : w < v}
    IN IF v \notin SrcVersions \/ earlier = {} THEN 0 ELSE Max(earlier)

\* Migrate.versionExists: an up or a down file exists for the version.
versionExists(v) == v \in SrcVersions

Err(e) == [kind |-> "err", err |-> e, version |-> 0, target |-> 0,
           up |-> FALSE, body |-> "none"]

\* Migrate.newMigration: the up body when target >= version, else the down
\* body; a missing file gives an "empty" migration (no body).
newMigration(version, target) ==
    [kind |-> "migr", err |-> "nil", version |-> version, target |-> target,
     up |-> (target >= version),
     body |-> IF target >= version THEN source[version].up
              ELSE source[version].down]

----------------------------------------------------------------------------
\* Delta computation: the items Migrate.readUp / readDown / read send on the
\* channel, in order.  from = -1 is the nil version, limit = -1 is no limit.

\* Mutant of readUpLoop: the limit is tested after the step instead of before
\* it, so one step too many is read.
RECURSIVE readUpLoop_OneMore(_, _, _)
readUpLoop_OneMore(from, limit, count) ==
    IF ~(count <= limit \/ limit = -1) THEN <<>>
    ELSE IF from = -1 THEN
        IF First = 0 THEN <<Err("ErrNotExist")>>
        ELSE <<newMigration(First, First)>>
                 \o readUpLoop_OneMore(First, limit, count + 1)
    ELSE IF NextVersion(from) = 0 THEN
        IF limit = -1 /\ count = 0 THEN <<Err("ErrNoChange")>>
        ELSE IF limit = -1 THEN <<>>
        ELSE IF limit > 0 /\ count = 0 THEN <<Err("ErrNotExist")>>
        ELSE <<>>
    ELSE <<newMigration(NextVersion(from), NextVersion(from))>>
             \o readUpLoop_OneMore(NextVersion(from), limit, count + 1)

RECURSIVE readUpLoop(_, _, _)
readUpLoop(from, limit, count) ==
    IF ~(count < limit \/ limit = -1) THEN <<>>
    ELSE IF from = -1 THEN
        IF First = 0 THEN <<Err("ErrNotExist")>>
        ELSE <<newMigration(First, First)>>
                 \o readUpLoop(First, limit, count + 1)
    ELSE IF NextVersion(from) = 0 THEN
        IF limit = -1 /\ count = 0 THEN <<Err("ErrNoChange")>>
        ELSE IF limit = -1 THEN <<>>
        ELSE IF limit > 0 /\ count = 0 THEN <<Err("ErrNotExist")>>
        ELSE <<Err("ErrShortLimit")>>
    ELSE <<newMigration(NextVersion(from), NextVersion(from))>>
             \o readUpLoop(NextVersion(from), limit, count + 1)

readUp(from, limit) ==
    IF from >= 0 /\ ~versionExists(from) THEN <<Err("ErrNotExist")>>
    ELSE IF limit = 0 THEN <<Err("ErrNoChange")>>
    ELSE readUpLoop(from, limit, 0)

RECURSIVE readDownLoop(_, _, _)
readDownLoop(from, limit, count) ==
    IF ~(count < limit \/ limit = -1) THEN <<>>
    ELSE IF PrevVersion(from) = 0 THEN
        \* no earlier version: revert the first migration down to nil
        LET goesOn == limit = -1 \/ limit - count > 0
            c2 == IF goesOn THEN count + 1 ELSE count
        IN (IF goesOn THEN <<newMigration(First, -1)>> ELSE <<>>)
               \o (IF c2 < limit THEN <<Err("ErrShortLimit")>> ELSE <<>>)
    ELSE <<newMigration(from, PrevVersion(from))>>
             \o readDownLoop(PrevVersion(from), limit, count + 1)

readDown(from, limit) ==
    IF from >= 0 /\ ~versionExists(from) THEN <<Err("ErrNotExist")>>
    ELSE IF limit = 0 THEN <<Err("ErrNoChange")>>
    ELSE IF from = -1 /\ limit = -1 THEN <<Err("ErrNoChange")>>
    ELSE IF from = -1 /\ limit > 0 THEN <<Err("ErrNotExist")>>
    ELSE readDownLoop(from, limit, 0)

RECURSIVE readGoUp(_, _)
readGoUp(from, to) ==
    IF ~(from < to) THEN <<>>
    ELSE IF NextVersion(from) = 0 THEN <<Err("ErrNotExist")>>
    ELSE <<newMigration(NextVersion(from), NextVersion(from))>>
             \o readGoUp(NextVersion(from), to)

\* Mutant of readGoDown: the step of the target version is reverted too.
RECURSIVE readGoDown_Inclusive(_, _)
readGoDown_Inclusive(from, to) ==
    IF ~(from >= to /\ from >= 0) THEN <<>>
    ELSE IF PrevVersion(from) = 0 THEN
        IF to = -1 THEN <<newMigration(from, -1)>> ELSE <<Err("ErrNotExist")>>
    ELSE <<newMigration(from, PrevVersion(from))>>
             \o readGoDown_Inclusive(PrevVersion(from), to)

RECURSIVE readGoDown(_, _)
readGoDown(from, to) ==
    IF ~(from > to /\ from >= 0) THEN <<>>
    ELSE IF PrevVersion(from) = 0 THEN
        IF to = -1 THEN <<newMigration(from, -1)>> ELSE <<Err("ErrNotExist")>>
    ELSE <<newMigration(from, PrevVersion(from))>>
             \o readGoDown(PrevVersion(from), to)

read(from, to) ==
    IF from >= 0 /\ ~versionExists(from) THEN <<Err("ErrNotExist")>>
    ELSE IF to >= 0 /\ ~versionExists(to) THEN <<Err("ErrNotExist")>>
    ELSE IF from = to THEN <<Err("ErrNoChange")>>
    ELSE IF from < to THEN
        IF from = -1 THEN
            IF First = 0 THEN <<Err("ErrNotExist")>>
            ELSE <<newMigration(First, First)>> \o readGoUp(First, to)
        ELSE readGoUp(from, to)
    ELSE readGoDown(from, to)

\* Mutant of Delta: Up reads the source from its first step whatever the
\* marker says.
Delta_FromStart(op, arg, cur) ==
    CASE op = "Up"    -> readUp(-1, -1)
      [] op = "Down"  -> readDown(cur, -1)
      [] op = "Steps" -> IF arg > 0 THEN readUp(cur, arg) ELSE readDown(cur, -arg)
      [] op = "To"    -> read(cur, arg)
      [] OTHER        -> <<>>

\* The delta each runner method asks the library for (Runner.Up -> m.Up(),
\* Runner.Down -> m.Down(), Runner.Steps -> m.Steps(n), Runner.To ->
\* m.Migrate(version)), given the clean current version.
Delta(op, arg, cur) ==
    CASE op = "Up"    -> readUp(cur, -1)
      [] op = "Down"  -> readDown(cur, -1)
      [] op = "Steps" -> IF arg > 0 THEN readUp(cur, arg) ELSE readDown(cur, -arg)
      [] op = "To"    -> read(cur, arg)
      [] OTHER        -> <<>>

----------------------------------------------------------------------------
\* The marker table (postgres driver).

\* postgres.Version: SELECT version, dirty ... LIMIT 1; no row is the nil
\* version (-1), clean.
MarkerVersion == IF rows = <<>> THEN -1 ELSE rows[1].version
MarkerDirty == IF rows = <<>> THEN FALSE ELSE rows[1].dirty

\* Mutant of SetVersion: the row is inserted for the nil version too.
SetVersion_AlwaysInsert(version, dirty) ==
    <<[version |-> version, dirty |-> dirty]>>

\* Mutant of SetVersion: the row is added to the rows there are.
SetVersion_NoTruncate(version, dirty) ==
    <<[version |-> version, dirty |-> dirty]>> \o rows

\* postgres.SetVersion: TRUNCATE, then INSERT unless the version is nil and
\* clean.
SetVersion(version, dirty) ==
    IF version >= 0 \/ (version = -1 /\ dirty)
    THEN <<[version |-> version, dirty |-> dirty]>>
    ELSE <<>>

----------------------------------------------------------------------------
\* Errors.

\* Mutant of RunnerResult: ErrNoChange is passed on to the caller.
RunnerResult_Keep(op, err) == err

\* Runner.Up/Down/Steps/To turn migrate.ErrNoChange into nil; Force, Drop and
\* the facade's WrapError keep the error's class.
RunnerResult(op, err) ==
    IF op \in {"Up", "Down", "Steps", "To"} /\ err = "ErrNoChange"
    THEN "nil" ELSE err

IsNoChange(err) == err = "ErrNoChange"
IsLocked(err) == err = "ErrLocked"

----------------------------------------------------------------------------
\* Inputs of the facade calls.

StepArgs == (0 - MaxVersion)..MaxVersion
ToArgs == 0..MaxVersion
ForceArgs == (0 - 2)..MaxVersion

\* Strings the code slices or tests for a prefix are sequences of
\* characters: the source URLs and the directory in them.
FileScheme == <<"f", "i", "l", "e", ":", "/", "/">>
EmbedURL == <<"e", "m", "b", "e", "d", ":", "/", "/">>
MigrationsDir == <<"m">>

\* Config, without the fields no check reads (Verbose, EmbedFS, EmbedSubdir).
\* LockTimeout is in seconds.
DefaultConfig ==
    [AutoMigrate |-> FALSE, Dir |-> <<>>, UseEmbed |-> FALSE,
     Table |-> "schema_migrations", LockTimeout |-> 15]

WithDir(c, dir) == [c EXCEPT !.Dir = dir, !.UseEmbed = FALSE]
WithEmbed(c) == [c EXCEPT !.UseEmbed = TRUE, !.Dir = <<>>]
WithTable(c, name) == [c EXCEPT !.Table = name]
WithLockTimeout(c, d) == [c EXCEPT !.LockTimeout = d]
WithAutoMigrate(c) == [c EXCEPT !.AutoMigrate = TRUE]

\* Mutant of Validate: the table name is looked at before the source.
Validate_TableFirst(c) ==
    IF c.Dir # <<>> /\ c.UseEmbed THEN "ErrInvalidConfig"
    ELSE IF c.Table = "" THEN "ErrInvalidConfig"
    ELSE IF c.Dir = <<>> /\ ~c.UseEmbed /\ c.AutoMigrate
    THEN "ErrNoMigrationSource"
    ELSE IF c.LockTimeout < 0 THEN "ErrInvalidConfig"
    ELSE "nil"

\* Mutant of Validate: the lock timeout is not looked at.
Validate_AnyTimeout(c) ==
    IF c.Dir # <<>> /\ c.UseEmbed THEN "ErrInvalidConfig"
    ELSE IF c.Dir = <<>> /\ ~c.UseEmbed /\ c.AutoMigrate
    THEN "ErrNoMigrationSource"
    ELSE IF c.Table = "" THEN "ErrInvalidConfig"
    ELSE "nil"

\* Config.Validate: the sentinel error its result wraps, or nil.
Validate(c) ==
    IF c.Dir # <<>> /\ c.UseEmbed THEN "ErrInvalidConfig"
    ELSE IF c.Dir = <<>> /\ ~c.UseEmbed /\ c.AutoMigrate
    THEN "ErrNoMigrationSource"
    ELSE IF c.Table = "" THEN "ErrInvalidConfig"
    ELSE IF c.LockTimeout < 0 THEN "ErrInvalidConfig"
    ELSE "nil"

\* The configurations callers pass.  SourceConfigs: the defaults with
\* WithDir, or with no source option.  ConfigSpace: every combination of the
\* fields Validate reads (an Option is any func(*Config), so Dir and UseEmbed
\* can be set together).
FileConfig == WithDir(DefaultConfig, MigrationsDir)
SourceConfigs == {FileConfig, DefaultConfig}
TimeoutValues == {-1, 0, 15}
ConfigSpace ==
    [AutoMigrate : BOOLEAN, Dir : {<<>>, MigrationsDir}, UseEmbed : BOOLEAN,
     Table : {"", "schema_migrations"}, LockTimeout : TimeoutValues]

NoCall == [op |-> "none", arg |-> 0, cfg |-> DefaultConfig]
NoSnapshot == [table |-> FALSE, rows |-> <<>>, schema |-> {}]

Sources ==
    {f \in UNION {[S -> StepKinds] : S \in SUBSET Versions} :
        Cardinality({v \in DOMAIN f : f[v] # Healthy}) <= MaxFaults}

NoProbe == [fn |-> "none", in |-> <<>>, out |-> <<>>]

\* Nothing outside the migration facade has been called.
Databases == {"default", "orders"}
Operations == {"up", "down"}
Statuses == {"success", "failure"}

\* NewMigrationMetrics: collectors with nothing recorded
NewMigrationMetrics ==
    [operationsTotal |-> [l \in Databases \X Operations \X Statuses |-> 0],
     operationDuration |-> [l \in Databases \X Operations |-> 0]]

SideIdle ==
    /\ metrics = NewMigrationMetrics
    /\ fnCalls = 0
    /\ probe = NoProbe
    /\ files = <<>>
    /\ dbxTable = FALSE
    /\ dbxMigrations = {}
    /\ executed = <<>>
    /\ mrTodo = <<>>
    /\ mrRan = <<>>
    /\ mrPc = "idle"
    /\ mrRet = "nil"

\* A fresh database, no call in progress, any migration source.
Init ==
    /\ SideIdle
    /\ source \in Sources
    /\ tableExists = FALSE
    /\ rows = <<>>
    /\ schema = {}
    /\ lockHolders = {}
    /\ pc = [p \in Clients |-> "idle"]
    /\ call = [p \in Clients |-> NoCall]
    /\ runnerOpen = [p \in Clients |-> FALSE]
    /\ queue = [p \in Clients |-> <<>>]
    /\ ret = [p \in Clients |-> "nil"]
    /\ ran = [p \in Clients |-> <<>>]
    /\ pre = [p \in Clients |-> NoSnapshot]
    /\ result = [p \in Clients |-> "none"]
    /\ forced = FALSE
    /\ rt = -1
    /\ rtFailed = FALSE

----------------------------------------------------------------------------
\* The facade: cfg.Validate, createRunner, defer runner.Close, runner.<op>.

\* createRunner: UseEmbed gives NewRunnerWithEmbed, else a Dir gives
\* NewRunner on the file source, and both open the database; with neither it
\* returns ErrNoMigrationSource before any runner exists.
createRunnerFails(cfg) == ~cfg.UseEmbed /\ cfg.Dir = <<>>

\* Up, Down, Steps, To, Force, Drop: DefaultConfig, Apply(opts), Validate,
\* createRunner.
Begin(p, op, arg, cfg) ==
    /\ pc[p] = "idle"
    /\ call' = [call EXCEPT ![p] = [op |-> op, arg |-> arg, cfg |-> cfg]]
    /\ pre' = [pre EXCEPT ![p] =
                  [table |-> tableExists, rows |-> rows, schema |-> schema]]
    /\ ran' = [ran EXCEPT ![p] = <<>>]
    /\ queue' = [queue EXCEPT ![p] = <<>>]
    /\ IF Validate(cfg) # "nil"
       THEN /\ ret' = [ret EXCEPT ![p] = Validate(cfg)]
            /\ pc' = [pc EXCEPT ![p] = "return"]
       ELSE IF createRunnerFails(cfg)
       THEN /\ ret' = [ret EXCEPT ![p] = "ErrNoMigrationSource"]
            /\ pc' = [pc EXCEPT ![p] = "return"]
       ELSE /\ ret' = [ret EXCEPT ![p] = "nil"]
            /\ pc' = [pc EXCEPT ![p] = "create"]
    /\ UNCHANGED <<source, dbVars, lockHolders, runnerOpen, histVars, sideVars>>

CallUp(p, Cfgs) == \E cfg \in Cfgs : Begin(p, "Up", 0, cfg)

CallDown(p, Cfgs) == \E cfg \in Cfgs : Begin(p, "Down", 0, cfg)

CallSteps(p, Cfgs) ==
    \E n \in StepArgs, cfg \in Cfgs : Begin(p, "Steps", n, cfg)

CallTo(p, Cfgs) == \E v \in ToArgs, cfg \in Cfgs : Begin(p, "To", v, cfg)

CallForce(p, Cfgs) ==
    \E v \in ForceArgs, cfg \in Cfgs : Begin(p, "Force", v, cfg)

CallDrop(p, Cfgs) == \E cfg \in Cfgs : Begin(p, "Drop", 0, cfg)

\* A caller's own cfg.Validate(), outside any facade call.
CallValidate(p, Cfgs) ==
    \E cfg \in Cfgs :
        /\ pc[p] = "idle"
        /\ call' = [call EXCEPT ![p] =
                       [op |-> "Validate", arg |-> 0, cfg |-> cfg]]
        /\ ret' = [ret EXCEPT ![p] = Validate(cfg)]
        /\ pc' = [pc EXCEPT ![p] = "return"]
        /\ UNCHANGED <<source, dbVars, lockHolders, runnerOpen, queue, ran,
                       pre, histVars, sideVars>>

\* Status{}: what GetStatus returns next to an error.
ZeroStatus == [Current |-> 0, Dirty |-> FALSE, Applied |-> {}, Pending |-> {}]

\* internal.GetStatus: its NewRunner rejects an empty source URL; otherwise
\* Current and Dirty are the marker's (0 for no row), Applied the versions
\* of the marker table's clean rows, and Pending is left empty.
internalGetStatus(sourceURL) ==
    IF sourceURL = ""
    THEN [err |-> "ErrSourceURLRequired", status |-> ZeroStatus]
    ELSE [err |-> "nil",
          status |-> [Current |-> IF MarkerVersion = -1 THEN 0
                                  ELSE MarkerVersion,
                      Dirty |-> MarkerDirty,
                      Applied |-> {rows[i].version :
                                     i \in {j \in 1..Len(rows) :
                                              ~rows[j].dirty}},
                      Pending |-> {}]]

\* GetStatus does not call Validate.  Without Dir and UseEmbed it goes to
\* getStatusWithoutSource, whose internal.GetStatus calls NewRunner with an
\* empty source URL and fails before any runner exists; otherwise it goes
\* to createRunner.
CallGetStatus(p, Cfgs) ==
    \E cfg \in Cfgs :
        /\ pc[p] = "idle"
        /\ call' = [call EXCEPT ![p] =
                       [op |-> "GetStatus", arg |-> 0, cfg |-> cfg]]
        /\ pre' = [pre EXCEPT ![p] =
                      [table |-> tableExists, rows |-> rows, schema |-> schema]]
        /\ ran' = [ran EXCEPT ![p] = <<>>]
        /\ queue' = [queue EXCEPT ![p] = <<>>]
        /\ IF cfg.Dir = <<>> /\ ~cfg.UseEmbed
           THEN /\ ret' = [ret EXCEPT ![p] = internalGetStatus("").err]
                /\ pc' = [pc EXCEPT ![p] = "return"]
           ELSE /\ ret' = [ret EXCEPT ![p] = "nil"]
                /\ pc' = [pc EXCEPT ![p] = "create"]
        /\ UNCHANGED <<source, dbVars, lockHolders, runnerOpen, histVars, sideVars>>

\* The call passed Validate and createRunner: a runner is (going to be) made.
Sourced(p) ==
    Validate(call[p].cfg) = "nil" /\ ~createRunnerFails(call[p].cfg)

\* Mutant of LockFree: the lock is granted whoever holds it.
LockFree_Always == TRUE

\* pg_advisory_lock: granted only while no session holds the lock.
LockFree == lockHolders = {}

\* NewRunner / NewRunnerWithEmbed open the postgres driver, whose
\* ensureVersionTable takes the advisory lock (it waits without a timeout) ...
EnsureLock(p) ==
    /\ pc[p] = "create"
    /\ LockFree
    /\ lockHolders' = lockHolders \cup {p}
    /\ runnerOpen' = [runnerOpen EXCEPT ![p] = TRUE]
    /\ pc' = [pc EXCEPT ![p] = "ensure"]
    /\ UNCHANGED <<source, dbVars, call, queue, ret, ran, pre, histVars, sideVars>>

\* ... creates the marker table if it is missing, and unlocks.
EnsureTable(p) ==
    /\ pc[p] = "ensure"
    /\ tableExists' = TRUE
    /\ lockHolders' = lockHolders \ {p}
    /\ pc' = [pc EXCEPT ![p] = "op"]
    /\ UNCHANGED <<source, rows, schema, call, runnerOpen, queue,
                   ret, ran, pre, histVars, sideVars>>

Finish(p, err) ==
    /\ ret' = [ret EXCEPT ![p] = RunnerResult(call[p].op, err)]
    /\ pc' = [pc EXCEPT ![p] = "close"]

\* Migrate.Steps(0) returns ErrNoChange before it locks or reads the marker.
StepsZero(p) ==
    /\ pc[p] = "op"
    /\ call[p].op = "Steps" /\ call[p].arg = 0
    /\ Finish(p, "ErrNoChange")
    /\ UNCHANGED <<source, dbVars, lockHolders, call, runnerOpen, queue, ran,
                   pre, histVars, sideVars>>

\* Migrate.Force(version) with version < -1 returns ErrInvalidVersion.
ForceInvalid(p) ==
    /\ pc[p] = "op"
    /\ call[p].op = "Force" /\ call[p].arg < -1
    /\ Finish(p, "ErrInvalidVersion")
    /\ UNCHANGED <<source, dbVars, lockHolders, call, runnerOpen, queue, ran,
                   pre, histVars, sideVars>>

\* GetStatus with a source: runner.Version(), then internal.GetStatus with an
\* empty source URL, which NewRunner rejects.
StatusVersion(p) ==
    /\ pc[p] = "op"
    /\ call[p].op = "GetStatus"
    /\ Finish(p, internalGetStatus("").err)
    /\ UNCHANGED <<source, dbVars, lockHolders, call, runnerOpen, queue, ran,
                   pre, histVars, sideVars>>

Locks(op, arg) ==
    \/ op \in {"Up", "Down", "To", "Drop"}
    \/ op = "Steps" /\ arg # 0
    \/ op = "Force" /\ arg >= -1

\* Migrate.lock: the advisory lock is acquired.
Lock(p) ==
    /\ pc[p] = "op"
    /\ Locks(call[p].op, call[p].arg)
    /\ LockFree
    /\ lockHolders' = lockHolders \cup {p}
    /\ pc' = [pc EXCEPT ![p] =
                 CASE call[p].op = "Force" -> "force"
                   [] call[p].op = "Drop"  -> "drop"
                   [] OTHER                -> "version"]
    /\ UNCHANGED <<source, dbVars, call, runnerOpen, queue, ret, ran, pre,
                   histVars, sideVars>>

\* Migrate.lock: another session holds the lock until the timeout expires.
LockTimeout(p) ==
    /\ pc[p] = "op"
    /\ Locks(call[p].op, call[p].arg)
    /\ lockHolders \ {p} # {}
    /\ Finish(p, "ErrLockTimeout")
    /\ UNCHANGED <<source, dbVars, lockHolders, call, runnerOpen, queue, ran,
                   pre, histVars, sideVars>>

\* Mutant of ReadVersion: the dirty flag is not looked at.
ReadVersion_NoGate(p) ==
    /\ pc[p] = "version"
    /\ queue' = [queue EXCEPT ![p] =
                    Delta(call[p].op, call[p].arg, MarkerVersion)]
    /\ pc' = [pc EXCEPT ![p] = "run"]
    /\ UNCHANGED <<ret, lockHolders>>
    /\ UNCHANGED <<source, dbVars, call, runnerOpen, ran, pre, histVars, sideVars>>

\* Up / Down / Steps / Migrate after the lock: read the marker, refuse a
\* dirty one, else start the reader that fills the channel.
ReadVersion(p) ==
    /\ pc[p] = "version"
    /\ IF MarkerDirty
       THEN /\ Finish(p, "ErrDirty")
            /\ lockHolders' = lockHolders \ {p}
            /\ UNCHANGED queue
       ELSE /\ queue' = [queue EXCEPT ![p] =
                            Delta(call[p].op, call[p].arg, MarkerVersion)]
            /\ pc' = [pc EXCEPT ![p] = "run"]
            /\ UNCHANGED <<ret, lockHolders>>
    /\ UNCHANGED <<source, dbVars, call, runnerOpen, ran, pre, histVars, sideVars>>

\* Mutant of RunNext: the marker is made dirty at the version it has, and
\* moved to the target only once the body has run.
RunNext_DirtyInPlace(p) ==
    /\ pc[p] = "run"
    /\ \/ /\ queue[p] = <<>>
          /\ Finish(p, "nil")
          /\ lockHolders' = lockHolders \ {p}
          /\ UNCHANGED <<rows, queue>>
       \/ /\ queue[p] # <<>>
          /\ Head(queue[p]).kind = "err"
          /\ Finish(p, Head(queue[p]).err)
          /\ lockHolders' = lockHolders \ {p}
          /\ UNCHANGED <<rows, queue>>
       \/ /\ queue[p] # <<>>
          /\ Head(queue[p]).kind = "migr"
          /\ rows' = <<[version |-> IF MarkerVersion = -1 THEN 0
                                    ELSE MarkerVersion,
                        dirty |-> TRUE]>>
          /\ pc' = [pc EXCEPT ![p] = "exec"]
          /\ UNCHANGED <<ret, lockHolders, queue>>
    /\ UNCHANGED <<source, tableExists, schema, call, runnerOpen,
                   ran, pre, histVars, sideVars>>

\* Mutant of RunNext: the target version is written clean before the body
\* runs.
RunNext_CleanFirst(p) ==
    /\ pc[p] = "run"
    /\ \/ /\ queue[p] = <<>>
          /\ Finish(p, "nil")
          /\ lockHolders' = lockHolders \ {p}
          /\ UNCHANGED <<rows, queue>>
       \/ /\ queue[p] # <<>>
          /\ Head(queue[p]).kind = "err"
          /\ Finish(p, Head(queue[p]).err)
          /\ lockHolders' = lockHolders \ {p}
          /\ UNCHANGED <<rows, queue>>
       \/ /\ queue[p] # <<>>
          /\ Head(queue[p]).kind = "migr"
          /\ rows' = SetVersion(Head(queue[p]).target, FALSE)
          /\ pc' = [pc EXCEPT ![p] = "exec"]
          /\ UNCHANGED <<ret, lockHolders, queue>>
    /\ UNCHANGED <<source, tableExists, schema, call, runnerOpen,
                   ran, pre, histVars, sideVars>>

\* Migrate.runMigrations, one item of the channel: the channel is closed
\* (done), an error (returned), or a migration, whose target version is
\* written with dirty = true before its body runs.
RunNext(p) ==
    /\ pc[p] = "run"
    /\ \/ /\ queue[p] = <<>>
          /\ Finish(p, "nil")
          /\ lockHolders' = lockHolders \ {p}
          /\ UNCHANGED <<rows, queue>>
       \/ /\ queue[p] # <<>>
          /\ Head(queue[p]).kind = "err"
          /\ Finish(p, Head(queue[p]).err)
          /\ lockHolders' = lockHolders \ {p}
          /\ UNCHANGED <<rows, queue>>
       \/ /\ queue[p] # <<>>
          /\ Head(queue[p]).kind = "migr"
          /\ rows' = SetVersion(Head(queue[p]).target, TRUE)
          /\ pc' = [pc EXCEPT ![p] = "exec"]
          /\ UNCHANGED <<ret, lockHolders, queue>>
    /\ UNCHANGED <<source, tableExists, schema, call, runnerOpen,
                   ran, pre, histVars, sideVars>>

\* The effect of a body that ran to its end.
Effect(m) == IF m.up THEN schema \cup {m.version} ELSE schema \ {m.version}

\* Mutant of Exec: a body the database rejects is passed over and the
\* operation goes on with the next step.
Exec_Continue(p) ==
    /\ pc[p] = "exec"
    /\ LET m == Head(queue[p]) IN
       \/ /\ m.body = "none"
          /\ pc' = [pc EXCEPT ![p] = "clean"]
          /\ UNCHANGED <<schema, ran, ret, lockHolders>>
       \/ /\ m.body = "ok"
          /\ schema' = Effect(m)
          /\ ran' = [ran EXCEPT ![p] = Append(@, <<m.version, m.up>>)]
          /\ pc' = [pc EXCEPT ![p] = "clean"]
          /\ UNCHANGED <<ret, lockHolders>>
       \/ /\ m.body = "bad"
          /\ ran' = [ran EXCEPT ![p] = Append(@, <<m.version, m.up>>)]
          /\ pc' = [pc EXCEPT ![p] = "clean"]
          /\ UNCHANGED <<schema, ret, lockHolders>>
    /\ UNCHANGED <<source, tableExists, rows, call, runnerOpen, queue, pre,
                   histVars, sideVars>>

\* The migration's body: none (an "empty" migration), executed, or rejected
\* by the database, which ends the operation with the marker left as it is.
Exec(p) ==
    /\ pc[p] = "exec"
    /\ LET m == Head(queue[p]) IN
       \/ /\ m.body = "none"
          /\ pc' = [pc EXCEPT ![p] = "clean"]
          /\ UNCHANGED <<schema, ran, ret, lockHolders>>
       \/ /\ m.body = "ok"
          /\ schema' = Effect(m)
          /\ ran' = [ran EXCEPT ![p] = Append(@, <<m.version, m.up>>)]
          /\ pc' = [pc EXCEPT ![p] = "clean"]
          /\ UNCHANGED <<ret, lockHolders>>
       \/ /\ m.body = "bad"
          /\ ran' = [ran EXCEPT ![p] = Append(@, <<m.version, m.up>>)]
          /\ Finish(p, "ErrDatabase")
          /\ lockHolders' = lockHolders \ {p}
          /\ UNCHANGED schema
    /\ UNCHANGED <<source, tableExists, rows, call, runnerOpen, queue, pre,
                   histVars, sideVars>>

\* runMigrations after the body: the target version is written clean.
SetClean(p) ==
    /\ pc[p] = "clean"
    /\ rows' = SetVersion(Head(queue[p]).target, FALSE)
    /\ queue' = [queue EXCEPT ![p] = Tail(@)]
    /\ pc' = [pc EXCEPT ![p] = "run"]
    /\ UNCHANGED <<source, tableExists, schema, lockHolders, call, runnerOpen,
                   ret, ran, pre, histVars, sideVars>>

\* Mutant of DoForce: the version is set and the dirty flag kept.
DoForce_KeepDirty(p) ==
    /\ pc[p] = "force"
    /\ rows' = SetVersion(call[p].arg, MarkerDirty)
    /\ forced' = TRUE
    /\ Finish(p, "nil")
    /\ lockHolders' = lockHolders \ {p}
    /\ UNCHANGED <<source, tableExists, schema, call, runnerOpen,
                   queue, ran, pre, result, rt, rtFailed, sideVars>>

\* Migrate.Force: SetVersion(version, false) under the lock, no delta.
DoForce(p) ==
    /\ pc[p] = "force"
    /\ rows' = SetVersion(call[p].arg, FALSE)
    /\ forced' = TRUE
    /\ Finish(p, "nil")
    /\ lockHolders' = lockHolders \ {p}
    /\ UNCHANGED <<source, tableExists, schema, call, runnerOpen,
                   queue, ran, pre, result, rt, rtFailed, sideVars>>

\* The opt-in confirmation a call carries: Drop(ctx, dbURL, opts...) has no
\* parameter for one, and no Option and no Config field stands for one.
Confirmed(c) == FALSE

\* Migrate.Drop: every table of the database is dropped, the marker table
\* included.
DoDrop(p) ==
    /\ pc[p] = "drop"
    /\ tableExists' = FALSE
    /\ rows' = <<>>
    /\ schema' = {}
    /\ forced' = TRUE
    /\ Finish(p, "nil")
    /\ lockHolders' = lockHolders \ {p}
    /\ UNCHANGED <<source, call, runnerOpen, queue, ran, pre, result, rt,
                   rtFailed, sideVars>>

\* The Status a GetStatus call that is about to return hands back: Current
\* and Dirty from runner.Version, Applied and Pending from internal.GetStatus
\* with the empty source URL; Status{} with an error.
ReturnedStatus(p) ==
    IF ret[p] # "nil" THEN ZeroStatus
    ELSE [Current |-> IF MarkerVersion = -1 THEN 0 ELSE MarkerVersion,
          Dirty |-> MarkerDirty,
          Applied |-> internalGetStatus("").status.Applied,
          Pending |-> internalGetStatus("").status.Pending]

\* Mutant of Close: the call returns with its runner left open.
Close_Leak(p) ==
    /\ pc[p] = "close"
    /\ pc' = [pc EXCEPT ![p] = "return"]
    /\ UNCHANGED <<source, dbVars, lockHolders, runnerOpen, call, queue, ret,
                   ran, pre, histVars, sideVars>>

\* The deferred runner.Close: source and connection are closed; closing the
\* session gives up any advisory lock it holds.
Close(p) ==
    /\ pc[p] = "close"
    /\ runnerOpen' = [runnerOpen EXCEPT ![p] = FALSE]
    /\ lockHolders' = lockHolders \ {p}
    /\ pc' = [pc EXCEPT ![p] = "return"]
    /\ UNCHANGED <<source, dbVars, call, queue, ret, ran, pre, histVars, sideVars>>

\* The facade call returns ret[p] to its caller.
Return(p) ==
    /\ pc[p] = "return"
    /\ result' = [result EXCEPT ![p] =
                     IF call[p].op = "Up" /\ ret[p] = "nil" THEN "upOK"
                     ELSE IF ret[p] = "nil" THEN "ok"
                     ELSE IF ret[p] = "ErrLockTimeout" THEN ret[p]
                     ELSE "failed"]
    /\ IF call[p].op = "Up" /\ Sourced(p) /\ pre[p].rows = <<>>
       THEN rt' = 0 /\ rtFailed' = (ret[p] # "nil")
       ELSE IF /\ call[p].op = "Down" /\ Sourced(p)
               /\ rt >= 0 /\ rt < Cardinality(SrcVersions)
       THEN rt' = rt + 1 /\ rtFailed' = (rtFailed \/ ret[p] # "nil")
       ELSE rt' = -1 /\ rtFailed' = FALSE
    /\ call' = [call EXCEPT ![p] = NoCall]
    /\ queue' = [queue EXCEPT ![p] = <<>>]
    /\ ran' = [ran EXCEPT ![p] = <<>>]
    /\ ret' = [ret EXCEPT ![p] = "nil"]
    /\ pre' = [pre EXCEPT ![p] = NoSnapshot]
    /\ pc' = [pc EXCEPT ![p] = "idle"]
    /\ UNCHANGED <<source, dbVars, lockHolders, runnerOpen, forced, sideVars>>

----------------------------------------------------------------------------
\* One caller at a time: each facade call runs to completion before the next.
Next ==
    \E p \in SeqClients :
        \/ CallUp(p, SourceConfigs) \/ CallDown(p, SourceConfigs)
        \/ CallSteps(p, SourceConfigs) \/ CallTo(p, SourceConfigs)
        \/ CallForce(p, SourceConfigs) \/ CallDrop(p, SourceConfigs)
        \/ CallGetStatus(p, SourceConfigs)
        \/ EnsureLock(p) \/ EnsureTable(p)
        \/ StepsZero(p) \/ ForceInvalid(p) \/ StatusVersion(p)
        \/ Lock(p) \/ ReadVersion(p) \/ RunNext(p) \/ Exec(p) \/ SetClean(p)
        \/ DoForce(p) \/ DoDrop(p) \/ Close(p) \/ Return(p)

Spec == Init /\ [][Next]_vars

\* Two clients calling Up against the same database at the same time.
NextConc ==
    \E p \in Clients :
        \/ CallUp(p, SourceConfigs)
        \/ EnsureLock(p) \/ EnsureTable(p)
        \/ Lock(p) \/ LockTimeout(p)
        \/ ReadVersion(p) \/ RunNext(p) \/ Exec(p) \/ SetClean(p)
        \/ Close(p) \/ Return(p)

SpecConc == Init /\ [][NextConc]_vars

\* One caller and one migration set, every step of it sound; the calls come
\* with any configuration.
InitConfig == Init /\ source = [v \in Versions |-> Healthy]

NextConfig ==
    \E p \in SeqClients :
        \/ CallValidate(p, ConfigSpace)
        \/ CallUp(p, ConfigSpace) \/ CallDown(p, ConfigSpace)
        \/ CallSteps(p, ConfigSpace) \/ CallTo(p, ConfigSpace)
        \/ CallForce(p, ConfigSpace) \/ CallDrop(p, ConfigSpace)
        \/ CallGetStatus(p, ConfigSpace)
        \/ EnsureLock(p) \/ EnsureTable(p)
        \/ StepsZero(p) \/ ForceInvalid(p) \/ StatusVersion(p)
        \/ Lock(p) \/ ReadVersion(p) \/ RunNext(p) \/ Exec(p) \/ SetClean(p)
        \/ DoForce(p) \/ DoDrop(p) \/ Close(p) \/ Return(p)

SpecConfig == InitConfig /\ [][NextConfig]_vars

\* What a runner does with the table and lock_timeout options.  createRunner
\* copies both into RunnerConfig.  NewRunner (file source) calls
\* migrate.New(sourceURL, dbURL) and NewRunnerWithEmbed calls
\* postgres.WithInstance with MigrationsTable: config.Table and then
\* migrate.NewWithInstance; neither assigns the LockTimeout of the Migrate
\* instance, which keeps the library's default.
DefaultMigrationsTable == "schema_migrations"
DefaultLockTimeout == 15

\* the table the runner's database driver keeps the marker in
MigrationsTable(cfg) ==
    IF cfg.UseEmbed /\ cfg.Table # "" THEN cfg.Table
    ELSE DefaultMigrationsTable

\* the seconds the runner's Migrate instance waits for the advisory lock
MigrateLockTimeout(cfg) == DefaultLockTimeout

\* Calls that carry the table and lock_timeout options; each of them makes
\* a runner whose marker is in schema_migrations, the table `rows` stands
\* for.
CustomTable == "custom"
LongTimeout == 30
OptionConfigs ==
    {FileConfig,
     WithLockTimeout(FileConfig, LongTimeout),
     WithTable(FileConfig, CustomTable),
     WithEmbed(DefaultConfig),
     WithLockTimeout(WithEmbed(DefaultConfig), LongTimeout)}

\* Two clients calling Up with these options against one database and one
\* sound migration set.
NextOptions ==
    \E p \in Clients :
        \/ CallUp(p, OptionConfigs)
        \/ EnsureLock(p) \/ EnsureTable(p)
        \/ Lock(p) \/ LockTimeout(p)
        \/ ReadVersion(p) \/ RunNext(p) \/ Exec(p) \/ SetClean(p)
        \/ Close(p) \/ Return(p)

SpecOptions == InitConfig /\ [][NextOptions]_vars

----------------------------------------------------------------------------
\* Vocabulary of the properties.  They are stated where a call is about to
\* return (pc = "return"): call, pre, ran and ret then describe the whole call.

PreVersion(p) == IF pre[p].rows = <<>> THEN -1 ELSE pre[p].rows[1].version
PreDirty(p) == pre[p].rows # <<>> /\ pre[p].rows[1].dirty
PreClean(p) == ~PreDirty(p) /\ PreVersion(p) \in SrcVersions \cup {-1}

Returning(p, op) == pc[p] = "return" /\ call[p].op = op /\ Sourced(p)

Untouched(p) == rows = pre[p].rows /\ schema = pre[p].schema /\ ran[p] = <<>>

RECURSIVE Ascending(_)
Ascending(S) == IF S = {} THEN <<>> ELSE <<Min(S)>> \o Ascending(S \ {Min(S)})

RECURSIVE Descending(_)
Descending(S) == IF S = {} THEN <<>> ELSE <<Max(S)>> \o Descending(S \ {Max(S)})

Pending(cur) == {w \in SrcVersions : w > cur}
Applied(cur) == {w \in SrcVersions : w <= cur}

\* The marker rows that say "clean at version v"; below every step there is
\* no row (version 0 / absent).
CleanAt(S) == IF S = {} THEN <<>> ELSE <<[version |-> Max(S), dirty |-> FALSE]>>

Ups(seq) == [i \in 1..Len(seq) |-> <<seq[i], TRUE>>]
Downs(seq) == [i \in 1..Len(seq) |-> <<seq[i], FALSE>>]

----------------------------------------------------------------------------
\* C1, as stated: with a dirty marker every Up, Down, Steps and To returns the
\* dirty-state error and changes nothing, and no operation but Force returns
\* success.
C1_DirtyRefusesAll ==
    \A p \in Clients :
        (pc[p] = "return" /\ Sourced(p) /\ PreDirty(p)) =>
            /\ call[p].op \in {"Up", "Down", "Steps", "To"}
                   => ret[p] = "ErrDirty" /\ Untouched(p)
            /\ call[p].op # "Force" => ret[p] # "nil"

\* C1, amended: with a dirty marker every Up, Down, To and Steps(n), n # 0,
\* returns the dirty-state error and leaves marker and schema unchanged with
\* no SQL executed; Steps(0) returns nil, also changing nothing; Force(v),
\* v >= -1, succeeds and leaves the marker clean at v.
C1_DirtyGate ==
    \A p \in Clients :
        (pc[p] = "return" /\ Sourced(p) /\ PreDirty(p)) =>
            /\ (\/ call[p].op \in {"Up", "Down", "To"}
                \/ call[p].op = "Steps" /\ call[p].arg # 0)
                   => ret[p] = "ErrDirty" /\ Untouched(p)
            /\ (call[p].op = "Steps" /\ call[p].arg = 0)
                   => ret[p] = "nil" /\ Untouched(p)
            /\ (call[p].op = "Force" /\ call[p].arg >= -1)
                   => /\ ret[p] = "nil"
                      /\ ~MarkerDirty /\ MarkerVersion = call[p].arg
                      /\ schema = pre[p].schema /\ ran[p] = <<>>

C1_Witness ==
    \E p \in Clients :
        /\ Returning(p, "To") /\ PreDirty(p)
        /\ ret[p] = "ErrDirty" /\ MarkerDirty

----------------------------------------------------------------------------
\* The version the marker had when the failing step started: the target of
\* the last body that ran to its end, or the version before the call.
LastCompleted(p) ==
    IF Len(ran[p]) >= 2 THEN ran[p][Len(ran[p]) - 1][1]
    ELSE IF PreVersion(p) = -1 THEN 0 ELSE PreVersion(p)

\* C2, as stated: an Up whose step fails leaves the marker dirty at the last
\* fully completed step (steps 1,2,3 with 2 invalid: {1, true}).
C2_DirtyAtLastCompleted ==
    \A p \in Clients :
        (Returning(p, "Up") /\ ret[p] = "ErrDatabase") =>
            rows = <<[version |-> LastCompleted(p), dirty |-> TRUE]>>

\* C2, amended: an Up whose step fails leaves the marker dirty at the FAILING
\* step's version, the steps before it applied and the failing one not
\* (steps 1,2,3 with 2 invalid, from a fresh marker: step 1 applied, marker
\* {2, true}).
C2_DirtyAtFailingStep ==
    \A p \in Clients :
        (Returning(p, "Up") /\ ret[p] = "ErrDatabase") =>
            LET failing == ran[p][Len(ran[p])][1]
                before == {w \in Pending(PreVersion(p)) : w < failing}
            IN /\ source[failing].up = "bad"
               /\ rows = <<[version |-> failing, dirty |-> TRUE]>>
               /\ ran[p] = Ups(Ascending(before)) \o <<<<failing, TRUE>>>>
               /\ schema = pre[p].schema \cup before

C2_Witness ==
    \E p \in Clients :
        /\ Returning(p, "Up") /\ ret[p] = "ErrDatabase"
        /\ SrcVersions = {1, 2, 3} /\ source[2].up = "bad"
        /\ pre[p].rows = <<>>
        /\ rows = <<[version |-> 2, dirty |-> TRUE]>>
        /\ schema = {1}

----------------------------------------------------------------------------
AllUpOK == \A v \in SrcVersions : source[v].up = "ok"
AllHealthy == \A v \in SrcVersions : source[v] = Healthy

\* C3: as long as Force (and Drop) have not been used, a step's up SQL is
\* about to run only on a clean marker that is below the step, and the step
\* is the next one of the source above the marker: steps go up in ascending
\* order, none is skipped, none runs while it counts as applied.  When every
\* step has a down body, the step's objects are then absent from the schema
\* too (a step without a down body is "reverted" by moving the marker only).
C3_AscendingOnce ==
    \A p \in Clients :
        (/\ pc[p] = "run" /\ queue[p] # <<>>
         /\ Head(queue[p]).kind = "migr" /\ Head(queue[p]).up
         /\ ~forced) =>
            /\ ~MarkerDirty
            /\ MarkerVersion < Head(queue[p]).version
            /\ Head(queue[p]).version = Min(Pending(MarkerVersion))
            /\ (\A v \in SrcVersions : source[v].down # "none")
                   => Head(queue[p]).version \notin schema

C3_Witness ==
    \E p \in Clients :
        /\ pc[p] = "run" /\ queue[p] # <<>>
        /\ Head(queue[p]).kind = "migr" /\ Head(queue[p]).up
        /\ ~forced
        /\ result[p] = "ok"
        /\ ran[p] # <<>>
        /\ MarkerVersion = 2

----------------------------------------------------------------------------
\* C4: two clients calling Up at the same time on a fresh database with a
\* non-empty source whose up bodies all run.  At most one session holds the
\* advisory lock; no up body runs twice; a call returns nil or the lock
\* timeout; once an Up has returned nil the marker is clean at the last step
\* with every step applied; the marker is dirty only while the lock holder is
\* inside a step; and when both clients have returned and none is calling,
\* one of them got nil.
C4_ConcurrentUp ==
    /\ Cardinality(lockHolders) <= 1
    /\ (AllUpOK /\ SrcVersions # {}) =>
        /\ \A p \in Clients :
               pc[p] = "exec" => Head(queue[p]).version \notin schema
        /\ \A p \in Clients :
               Returning(p, "Up") => ret[p] \in {"nil", "ErrLockTimeout"}
        /\ \A p \in Clients :
               (Returning(p, "Up") /\ ret[p] = "nil") \/ result[p] = "upOK"
                   => rows = CleanAt(SrcVersions) /\ schema = SrcVersions
        /\ MarkerDirty =>
               \E p \in lockHolders : pc[p] \in {"exec", "clean"}
        /\ (\A p \in Clients :
                pc[p] = "idle" /\ result[p] \in {"upOK", "ErrLockTimeout"})
               => \E p \in Clients : result[p] = "upOK"

C4_Witness ==
    \E p, q \in Clients :
        /\ SrcVersions = Versions /\ AllUpOK
        /\ result[p] = "ErrLockTimeout"
        /\ Returning(q, "Up") /\ ret[q] = "nil" /\ Len(ran[q]) = MaxVersion
        /\ rows = CleanAt(SrcVersions)

----------------------------------------------------------------------------
\* C5: a facade call that is about to return, or has returned, holds no
\* advisory lock and has no open runner, whichever way it ended.
C5_ReleasedOnReturn ==
    \A p \in Clients :
        pc[p] \in {"return", "idle"} => p \notin lockHolders /\ ~runnerOpen[p]

C5_Witness ==
    \E p \in Clients :
        /\ Returning(p, "Steps") /\ ret[p] = "ErrDatabase"
        /\ p \notin lockHolders /\ ~runnerOpen[p]

----------------------------------------------------------------------------
----------------------------------------------------------------------------
\* The delta of a call is empty: nothing is pending for Up, nothing is
\* applied for Down, n = 0 for Steps, the target is the current version for
\* To.
EmptyDelta(p) ==
    /\ PreClean(p)
    /\ SrcVersions # {}
    /\ CASE call[p].op = "Up"    -> Pending(PreVersion(p)) = {}
         [] call[p].op = "Down"  -> Applied(PreVersion(p)) = {}
         [] call[p].op = "Steps" -> call[p].arg = 0
         [] call[p].op = "To"    -> call[p].arg = PreVersion(p)
         [] OTHER                -> FALSE

\* C7: a call that finds an empty delta returns a result IsNoChange
\* recognises.
C7_NoChangeDistinguished ==
    \A p \in Clients :
        (pc[p] = "return" /\ Sourced(p) /\ EmptyDelta(p)) =>
            IsNoChange(ret[p])

----------------------------------------------------------------------------
\* C8: Down on a clean marker at a step with a working down body runs that
\* one down body and leaves the marker clean at the next lower version of the
\* source (no row when there is none).
C8_DownRevertsOne ==
    \A p \in Clients :
        (/\ Returning(p, "Down")
         /\ PreClean(p) /\ PreVersion(p) \in SrcVersions
         /\ source[PreVersion(p)].down = "ok") =>
            /\ ret[p] = "nil"
            /\ ran[p] = <<<<PreVersion(p), FALSE>>>>
            /\ rows = CleanAt(Applied(PreVersion(p)) \ {PreVersion(p)})

----------------------------------------------------------------------------
\* The marker says version 0, clean: no row, or the row {0, false}.
MarkerZero == rows = <<>> \/ rows = <<[version |-> 0, dirty |-> FALSE]>>

----------------------------------------------------------------------------
\* The first n elements of a sequence.
Take(seq, n) == SubSeq(seq, 1, n)
Range(seq) == {seq[i] : i \in 1..Len(seq)}

\* C10: Steps(n), n > 0, on a clean marker with at least n pending steps
\* whose up bodies work, runs the up bodies of the first n pending steps in
\* ascending order and leaves the marker clean at the n-th; Steps(n), n < 0,
\* with at least |n| applied steps whose down bodies work, runs the down
\* bodies of the last |n| applied steps in descending order and leaves the
\* marker clean at the step below them.
C10_StepsExact ==
    \A p \in Clients :
        (Returning(p, "Steps") /\ PreClean(p)) =>
            LET n == call[p].arg
                pending == Ascending(Pending(PreVersion(p)))
                applied == Descending(Applied(PreVersion(p)))
            IN /\ (/\ n > 0 /\ n <= Len(pending)
                   /\ \A i \in 1..n : source[pending[i]].up = "ok") =>
                      /\ ret[p] = "nil"
                      /\ ran[p] = Ups(Take(pending, n))
                      /\ rows = <<[version |-> pending[n], dirty |-> FALSE]>>
                      /\ schema = pre[p].schema \cup Range(Take(pending, n))
               /\ (/\ n < 0 /\ 0 - n <= Len(applied)
                   /\ \A i \in 1..(0 - n) : source[applied[i]].down = "ok") =>
                      /\ ret[p] = "nil"
                      /\ ran[p] = Downs(Take(applied, 0 - n))
                      /\ rows = CleanAt(Range(applied)
                                            \ Range(Take(applied, 0 - n)))
                      /\ schema = pre[p].schema \ Range(Take(applied, 0 - n))

C10_Witness ==
    \E p \in Clients :
        /\ Returning(p, "Steps") /\ PreClean(p)
        /\ call[p].arg = 0 - 2
        /\ PreVersion(p) = MaxVersion
        /\ ret[p] = "nil" /\ Len(ran[p]) = 2
        /\ ~forced

----------------------------------------------------------------------------
\* The current version as callers see it: 0 while the marker has no row.
CurrentVersion(p) == IF PreVersion(p) = -1 THEN 0 ELSE PreVersion(p)

StepsUpTo(p) ==
    {w \in SrcVersions : CurrentVersion(p) < w /\ w <= call[p].arg}
StepsDownTo(p) ==
    {w \in SrcVersions : call[p].arg < w /\ w <= CurrentVersion(p)}

ToOutcome(p) ==
    /\ ret[p] = "nil"
    /\ ran[p] = Ups(Ascending(StepsUpTo(p)))
                   \o Downs(Descending(StepsDownTo(p)))
    /\ schema = (pre[p].schema \cup StepsUpTo(p)) \ StepsDownTo(p)
    /\ (call[p].arg = CurrentVersion(p)) => rows = pre[p].rows

ToBodiesWork(p) ==
    /\ \A w \in StepsUpTo(p) : source[w].up = "ok"
    /\ \A w \in StepsDownTo(p) : source[w].down = "ok"

\* C11, as stated: To(v) on a clean marker, for any v >= 0, applies exactly
\* the steps above the current version up to v in ascending order, or
\* reverts exactly the steps above v up to the current version in descending
\* order, or (v the current version) succeeds and changes nothing.
C11_ToAnyTarget ==
    \A p \in Clients :
        (Returning(p, "To") /\ PreClean(p) /\ ToBodiesWork(p)) =>
            ToOutcome(p)

\* C11: To(v) on a clean marker, for v a version of the migration set, runs
\* the up bodies of exactly the steps above the current version up to v in
\* ascending order, or the down bodies of exactly the steps above v up to
\* the current version in descending order, and leaves the marker clean at
\* v; with v the current version it succeeds and changes nothing.
C11_ToExisting ==
    \A p \in Clients :
        (/\ Returning(p, "To") /\ PreClean(p) /\ ToBodiesWork(p)
         /\ versionExists(call[p].arg)) =>
            /\ ToOutcome(p)
            /\ rows = <<[version |-> call[p].arg, dirty |-> FALSE]>>

C11_Witness ==
    \E p \in Clients :
        /\ Returning(p, "To") /\ PreClean(p) /\ ToBodiesWork(p)
        /\ call[p].arg = 1 /\ PreVersion(p) = MaxVersion
        /\ SrcVersions = Versions
        /\ ret[p] = "nil" /\ Len(ran[p]) = MaxVersion - 1

----------------------------------------------------------------------------
\* C12: Force(v), v >= 0, whatever the marker was (absent, clean or dirty),
\* returns nil having run no body and read no delta, with the marker exactly
\* {v, clean} and the schema as it was.
C12_ForceSetsMarker ==
    \A p \in Clients :
        (Returning(p, "Force") /\ call[p].arg >= 0) =>
            /\ ret[p] = "nil"
            /\ ran[p] = <<>> /\ queue[p] = <<>>
            /\ rows = <<[version |-> call[p].arg, dirty |-> FALSE]>>
            /\ schema = pre[p].schema

C12_Witness ==
    \E p \in Clients :
        /\ Returning(p, "Force") /\ call[p].arg >= 0
        /\ PreDirty(p) /\ PreVersion(p) # call[p].arg
        /\ pre[p].schema # {}
        /\ rows = <<[version |-> call[p].arg, dirty |-> FALSE]>>

----------------------------------------------------------------------------
\* C13, as stated: Down on a clean marker at a step that has no down body
\* returns an error (the step is irreversible), runs no SQL and leaves the
\* marker clean at that step; and an Up over a source that has such a step
\* does not fail for it.
C13_IrreversibleDown ==
    \A p \in Clients :
        /\ (/\ Returning(p, "Down") /\ PreClean(p)
            /\ PreVersion(p) \in SrcVersions
            /\ source[PreVersion(p)].down = "none") =>
               /\ ret[p] # "nil"
               /\ ran[p] = <<>>
               /\ rows = pre[p].rows /\ schema = pre[p].schema
        /\ (/\ Returning(p, "Up") /\ pre[p].rows = <<>>
            /\ SrcVersions # {} /\ AllUpOK) => ret[p] = "nil"

----------------------------------------------------------------------------
\* A GetStatus call with a source (Dir or UseEmbed) is about to return.
StatusReturning(p) ==
    /\ pc[p] = "return" /\ call[p].op = "GetStatus"
    /\ ~createRunnerFails(call[p].cfg)

\* C14, as stated: GetStatus with a source returns no error, Current and
\* Dirty as the marker has them (0 and clean without a marker), Applied the
\* versions of the source up to Current and Pending the versions above it.
C14_StatusReports ==
    \A p \in Clients :
        StatusReturning(p) =>
            LET cur == IF MarkerVersion = -1 THEN 0 ELSE MarkerVersion
            IN /\ ret[p] = "nil"
               /\ ReturnedStatus(p).Current = cur
               /\ ReturnedStatus(p).Dirty = MarkerDirty
               /\ ReturnedStatus(p).Applied = Applied(cur)
               /\ ReturnedStatus(p).Pending = Pending(cur)

----------------------------------------------------------------------------
\* C15, as stated: a GetStatus call never holds the advisory lock, and when
\* it returns the marker table exists only if it did before, and the marker
\* rows and the schema are what they were.
C15_StatusReadOnly ==
    \A p \in Clients :
        call[p].op = "GetStatus" =>
            /\ p \notin lockHolders
            /\ pc[p] = "return" =>
                   /\ tableExists = pre[p].table
                   /\ rows = pre[p].rows
                   /\ schema = pre[p].schema

----------------------------------------------------------------------------
\* The body a ran entry <<version, up>> stands for.
BodyOf(e) == IF e[2] THEN source[e[1]].up ELSE source[e[1]].down

HasBody(m) == m.kind = "migr" /\ m.body # "none"

\* The bodies of a delta, up to and including the first one that fails.
ThroughFirstBad(d) ==
    LET b == SelectSeq(d, HasBody)
        bad == {i \in 1..Len(b) : b[i].body = "bad"}
        n == IF bad = {} THEN Len(b) ELSE Min(bad)
    IN [i \in 1..n |-> <<b[i].version, b[i].up>>]

\* C16: a body that fails is the last SQL its call runs, the call is then
\* on its way out with the database's error; and a call that started on a
\* clean marker has, when it returns, run the bodies of its delta in order
\* from the first one, every one up to the failing one (all of them when
\* none fails), and returns the error exactly when one failed.
C16_AbortAtFailure ==
    \A p \in Clients :
        /\ \A i \in 1..Len(ran[p]) :
               BodyOf(ran[p][i]) = "bad" =>
                   /\ i = Len(ran[p])
                   /\ pc[p] \in {"close", "return"}
                   /\ ret[p] = "ErrDatabase"
        /\ (/\ pc[p] = "return" /\ Sourced(p) /\ ~PreDirty(p)
            /\ call[p].op \in {"Up", "Down", "Steps", "To"}) =>
               /\ ran[p] = ThroughFirstBad(
                               Delta(call[p].op, call[p].arg, PreVersion(p)))
               /\ ret[p] = "ErrDatabase" <=>
                      \E i \in 1..Len(ran[p]) : BodyOf(ran[p][i]) = "bad"

C16_Witness ==
    \E p \in Clients :
        /\ Returning(p, "Up") /\ ~PreDirty(p)
        /\ ret[p] = "ErrDatabase"
        /\ Len(ran[p]) = 2 /\ BodyOf(ran[p][2]) = "bad"
        /\ Len(queue[p]) = 2

----------------------------------------------------------------------------
\* C17, as stated: the error a call returns when it could not get the lock
\* within the timeout is told apart by the helpers: IsLocked is true of it
\* and IsNoChange is false.
C17_TimeoutIsLocked ==
    \A p \in Clients :
        (pc[p] = "return" /\ ret[p] = "ErrLockTimeout") =>
            IsLocked(ret[p]) /\ ~IsNoChange(ret[p])

----------------------------------------------------------------------------
FacadeOps == {"Up", "Down", "Steps", "To", "Force", "Drop"}

ExactlyOneSource(c) == (c.Dir # <<>>) # c.UseEmbed

\* C18: a call of Up, Down, Steps, To, Force or Drop whose configuration
\* has not exactly one source kind, or has a negative lock timeout, or an
\* empty table name, is never anywhere but at its return, with a
\* configuration error: no runner was opened for it, it never held the
\* lock, and the marker table, the marker and the schema are as before.
C18_ValidateFirst ==
    \A p \in Clients :
        (/\ call[p].op \in FacadeOps
         /\ \/ ~ExactlyOneSource(call[p].cfg)
            \/ call[p].cfg.LockTimeout < 0
            \/ call[p].cfg.Table = "") =>
            /\ pc[p] = "return"
            /\ ret[p] \in {"ErrInvalidConfig", "ErrNoMigrationSource"}
            /\ ~runnerOpen[p] /\ p \notin lockHolders
            /\ tableExists = pre[p].table
            /\ Untouched(p)

C18_Witness ==
    \E p \in Clients :
        /\ pc[p] = "return" /\ call[p].op = "Drop"
        /\ ExactlyOneSource(call[p].cfg) /\ call[p].cfg.Table # ""
        /\ call[p].cfg.LockTimeout < 0
        /\ ret[p] = "ErrInvalidConfig"
        /\ tableExists /\ schema # {}

----------------------------------------------------------------------------
\* A caller's cfg.Validate() is about to return.
Validated(p) == pc[p] = "return" /\ call[p].op = "Validate"

NoSource(c) == c.Dir = <<>> /\ ~c.UseEmbed
BothSources(c) == c.Dir # <<>> /\ c.UseEmbed

\* C19, as stated: Validate returns ErrInvalidConfig when Dir and UseEmbed
\* are both set, when Table is empty, or when LockTimeout is negative;
\* ErrNoMigrationSource when AutoMigrate is set with no source; and nil in
\* every other case.
C19_ValidateCases ==
    \A p \in Clients :
        Validated(p) =>
            LET c == call[p].cfg
                invalid == BothSources(c) \/ c.Table = "" \/ c.LockTimeout < 0
                missing == c.AutoMigrate /\ NoSource(c)
            IN /\ invalid => ret[p] = "ErrInvalidConfig"
               /\ missing => ret[p] = "ErrNoMigrationSource"
               /\ (~invalid /\ ~missing) => ret[p] = "nil"

\* C19: Validate returns ErrNoMigrationSource when AutoMigrate is set with
\* no source, whatever Table and LockTimeout are; otherwise ErrInvalidConfig
\* when Dir and UseEmbed are both set, when Table is empty, or when
\* LockTimeout is negative; and nil in every other case, a configuration
\* without a source and without AutoMigrate included.
C19_ValidateOrdered ==
    \A p \in Clients :
        Validated(p) =>
            LET c == call[p].cfg
                invalid == BothSources(c) \/ c.Table = "" \/ c.LockTimeout < 0
                missing == c.AutoMigrate /\ NoSource(c)
            IN /\ missing => ret[p] = "ErrNoMigrationSource"
               /\ (invalid /\ ~missing) => ret[p] = "ErrInvalidConfig"
               /\ (~invalid /\ ~missing) => ret[p] = "nil"

C19_Witness ==
    \E p \in Clients :
        /\ Validated(p)
        /\ call[p].cfg.AutoMigrate /\ NoSource(call[p].cfg)
        /\ call[p].cfg.Table = ""
        /\ ret[p] = "ErrNoMigrationSource"

----------------------------------------------------------------------------
\* C20, as stated: a Drop call that carries no confirmation destroys
\* nothing: when it returns, the marker table is there if it was, and the
\* marker and the schema are what they were.
C20_DropNeedsConfirmation ==
    \A p \in Clients :
        (pc[p] = "return" /\ call[p].op = "Drop" /\ ~Confirmed(call[p])) =>
            /\ pre[p].table => tableExists
            /\ rows = pre[p].rows
            /\ schema = pre[p].schema

----------------------------------------------------------------------------
----------------------------------------------------------------------------
\* C25: while the body of a step is about to run, is running, or has
\* succeeded and the clean marker is not yet written, the marker is the one
\* row (target version of the step, dirty = true); a process that stops
\* anywhere in that window leaves it so.  A step whose body the database
\* rejected leaves the marker dirty at the step's target when the operation
\* returns.
InStep(p) == pc[p] \in {"exec", "clean"}

C25_DirtyAroundBody ==
    \A p \in Clients :
        /\ InStep(p) =>
               rows = <<[version |-> Head(queue[p]).target, dirty |-> TRUE]>>
        /\ (pc[p] \in {"close", "return"} /\ ret[p] = "ErrDatabase") =>
               /\ MarkerDirty
               /\ MarkerVersion = Head(queue[p]).target

\* the second step of an operation failed: the first step's marker was
\* written clean, the second's is left dirty
C25_Witness ==
    \E p \in Clients :
        /\ pc[p] = "return"
        /\ ret[p] = "ErrDatabase"
        /\ Len(ran[p]) >= 2
        /\ MarkerDirty

----------------------------------------------------------------------------
\* C26, as stated: a call that gives up waiting for the advisory lock has
\* waited for the lock timeout of its configuration.
C26_ConfiguredTimeoutUsed ==
    \A p \in Clients :
        (pc[p] \in {"close", "return"} /\ ret[p] = "ErrLockTimeout") =>
            MigrateLockTimeout(call[p].cfg) = call[p].cfg.LockTimeout

\* C27, as stated: the runner of every operation, with a filesystem source
\* or the embedded one, keeps the marker in the table its configuration
\* names.
C27_ConfiguredTableUsed ==
    \A p \in Clients :
        runnerOpen[p] => MigrationsTable(call[p].cfg) = call[p].cfg.Table

----------------------------------------------------------------------------
\* Module startup (module.go) and the functions that touch no database.

mainVars == <<source, dbVars, lockHolders, pc, call, runnerOpen, queue, ret,
              ran, pre, histVars>>

\* fmt.Sprintf("file://%s", dir)
FileURL(dir) == FileScheme \o dir

\* len(s) > 7 && s[:7] == "file://"
HasFileScheme(s) == Len(s) > 7 /\ SubSeq(s, 1, 7) = FileScheme

NoUp == [called |-> FALSE, cfg |-> DefaultConfig]

\* UpFromDatabaseConfig: the configuration it calls Up with, built from the
\* database config's migration_source, or the error it returns without
\* calling Up.  err = "nil" with called stands for whatever that Up returns.
UpFromDatabaseConfig(migrationSource) ==
    IF migrationSource = <<>>
    THEN [err |-> "ErrNoMigrationSource", up |-> NoUp]
    ELSE IF migrationSource = EmbedURL
    THEN [err |-> "nil",
          up |-> [called |-> TRUE, cfg |-> WithEmbed(DefaultConfig)]]
    ELSE IF HasFileScheme(migrationSource)
    THEN [err |-> "nil",
          up |-> [called |-> TRUE,
                  cfg |-> WithDir(DefaultConfig,
                                  SubSeq(migrationSource, 8,
                                         Len(migrationSource)))]]
    ELSE [err |-> "ErrSourceFormat", up |-> NoUp]

\* runGolangMigrations, for the module options mod (WithGolangMigrateDir,
\* WithGolangMigrateEmbed) and the default database's config db: the
\* overriding source decides whether migrations run at all, and then
\* UpFromDatabaseConfig is handed the database config itself.
runGolangMigrations(mod, db) ==
    LET migrationSource ==
            IF mod.golangMigrateUseEmbed THEN EmbedURL
            ELSE IF mod.golangMigrateDir # <<>>
            THEN FileURL(mod.golangMigrateDir)
            ELSE db.MigrationSource
        r == UpFromDatabaseConfig(db.MigrationSource)
    IN IF migrationSource = <<>> \/ ~db.AutoMigrate
       THEN [err |-> "nil", up |-> NoUp]
       ELSE IF ~(migrationSource = EmbedURL \/ HasFileScheme(migrationSource))
       THEN [err |-> "ErrSourceFormat", up |-> NoUp]
       ELSE IF IsNoChange(r.err) THEN [err |-> "nil", up |-> r.up]
       ELSE r

OtherDir == <<"n">>
ModuleConfigs ==
    [golangMigrateUseEmbed : BOOLEAN,
     golangMigrateDir : {<<>>, MigrationsDir, OtherDir}]
DatabaseConfigs ==
    [AutoMigrate : BOOLEAN,
     MigrationSource : {<<>>, EmbedURL, FileURL(MigrationsDir),
                        FileURL(OtherDir), MigrationsDir}]

\* The module's startup hook runs the migrations.
Startup ==
    /\ \E mod \in ModuleConfigs, db \in DatabaseConfigs :
           probe' = [fn |-> "runGolangMigrations", in |-> <<mod, db>>,
                     out |-> runGolangMigrations(mod, db)]
    /\ UNCHANGED <<mainVars, mrVars, mxVars>>

\* C22, as stated: with WithGolangMigrateDir(dir) or WithGolangMigrateEmbed()
\* and auto_migrate on, startup calls Up with the overriding source, whatever
\* the database config's migration_source is.
C22_OverrideIsApplied ==
    probe.fn = "runGolangMigrations" =>
        LET mod == probe.in[1]
            db == probe.in[2]
            out == probe.out
        IN /\ (mod.golangMigrateUseEmbed /\ db.AutoMigrate) =>
               /\ out.err = "nil" /\ out.up.called
               /\ out.up.cfg.UseEmbed /\ out.up.cfg.Dir = <<>>
           /\ (/\ ~mod.golangMigrateUseEmbed /\ mod.golangMigrateDir # <<>>
               /\ db.AutoMigrate) =>
               /\ out.err = "nil" /\ out.up.called
               /\ ~out.up.cfg.UseEmbed
               /\ out.up.cfg.Dir = mod.golangMigrateDir

----------------------------------------------------------------------------
\* NewConfig (migrate/config.go), unified configuration.

\* Longest rest of a migration_source after its first seven characters.
MaxTail == 2

Xs(n) == [i \in 1..n |-> "x"]

\* Values of databases.primary.migration_source: "embed://", and every
\* beginning of "file://" followed by other characters.
SourceStrings ==
    {EmbedURL} \cup
    {SubSeq(FileScheme, 1, k) \o Xs(n) : k \in 0..7, n \in 0..(7 + MaxTail)}

\* NewConfig with databases.primary.migration_source = src and
\* auto_migrate = auto, the other keys at their defaults.  source[7:] is a
\* Go slice expression: it panics when the string has fewer than 7 bytes.
NewConfig(src, auto) ==
    LET base == [DefaultConfig EXCEPT !.AutoMigrate = auto]
        cut == SubSeq(src, 8, Len(src))
        cfg == IF src = EmbedURL
               THEN [base EXCEPT !.UseEmbed = TRUE, !.Dir = <<>>]
               ELSE IF src # <<>>
               THEN [base EXCEPT !.UseEmbed = FALSE,
                                 !.Dir = IF cut = src THEN src ELSE cut]
               ELSE base
    IN IF src # EmbedURL /\ src # <<>> /\ Len(src) < 7
       THEN [panic |-> TRUE, err |-> "nil", cfg |-> base]
       ELSE [panic |-> FALSE, err |-> Validate(cfg), cfg |-> cfg]

LoadConfig ==
    /\ \E src \in SourceStrings, auto \in BOOLEAN :
           probe' = [fn |-> "NewConfig", in |-> <<src, auto>>,
                     out |-> NewConfig(src, auto)]
    /\ UNCHANGED <<mainVars, mrVars, mxVars>>

\* strings.HasPrefix(s, "file://")
HasPrefixFile(s) == Len(s) >= 7 /\ SubSeq(s, 1, 7) = FileScheme

\* C28, as stated: NewConfig never panics; "embed://" gives UseEmbed and no
\* Dir; "file://<path>" gives Dir = <path> and no UseEmbed; any other value
\* that is not empty gives Dir = the value and no UseEmbed.
C28_SourceMapping ==
    probe.fn = "NewConfig" =>
        LET src == probe.in[1]
            out == probe.out
        IN /\ ~out.panic
           /\ src = EmbedURL =>
                  out.cfg.UseEmbed /\ out.cfg.Dir = <<>>
           /\ HasPrefixFile(src) =>
                  /\ ~out.cfg.UseEmbed
                  /\ out.cfg.Dir = SubSeq(src, 8, Len(src))
           /\ (src # <<>> /\ src # EmbedURL /\ ~HasPrefixFile(src)) =>
                  ~out.cfg.UseEmbed /\ out.cfg.Dir = src

----------------------------------------------------------------------------
\* Config.Sanitize (config.go).

\* A connection string: its credentials and the rest of it.  NoString is
\* the empty string, Redacted the string "[redacted]".
Secrets == {"s1", "s2"}
NoString == [cred |-> "", rest |-> ""]
Redacted == [cred |-> "", rest |-> "[redacted]"]
ConnStrings == [cred : Secrets, rest : {"host"}]

\* Most read replicas of a database.
MaxReplicas == 1

DatabaseConfigValues ==
    [DSN : ConnStrings \cup {NoString},
     Password : Secrets \cup {""},
     ReadReplicas : UNION {[1..n -> ConnStrings] : n \in 0..MaxReplicas},
     Host : {"host"}]

DbxConfigs == [Default : {"primary"},
               Databases : [{"primary"} -> DatabaseConfigValues]]

\* Config.Sanitize: a copy in which every database's DSN and Password are
\* "[redacted]" unless empty; every other field is copied.
Sanitize(c) ==
    [Default |-> c.Default,
     Databases |->
         [k \in DOMAIN c.Databases |->
             [c.Databases[k] EXCEPT
                 !.DSN = IF @ # NoString THEN Redacted ELSE @,
                 !.Password = IF @ # "" THEN "[redacted]" ELSE @]]]

\* Two configurations are sanitized, as for two log lines.
SanitizePair ==
    /\ \E c1 \in DbxConfigs, c2 \in DbxConfigs :
           probe' = [fn |-> "Sanitize", in |-> <<c1, c2>>,
                     out |-> <<Sanitize(c1), Sanitize(c2)>>]
    /\ UNCHANGED <<mainVars, mrVars, mxVars>>

\* The two databases are the same but for the values of their credentials.
SameButCredentials(d1, d2) ==
    /\ d1.DSN.rest = d2.DSN.rest
    /\ (d1.Password = "") = (d2.Password = "")
    /\ d1.Host = d2.Host
    /\ Len(d1.ReadReplicas) = Len(d2.ReadReplicas)
    /\ \A i \in 1..Len(d1.ReadReplicas) :
           d1.ReadReplicas[i].rest = d2.ReadReplicas[i].rest

SecretsIn(d) ==
    ({d.DSN.cred, d.Password} \cup
     {d.ReadReplicas[i].cred : i \in 1..Len(d.ReadReplicas)}) \cap Secrets

\* C29, as stated: the sanitized copy holds no secret, and two
\* configurations that differ only in the values of their credentials have
\* equal sanitized copies.
C29_SanitizeHidesSecrets ==
    probe.fn = "Sanitize" =>
        LET d1 == probe.in[1].Databases["primary"]
            d2 == probe.in[2].Databases["primary"]
        IN /\ SecretsIn(probe.out[1].Databases["primary"]) = {}
           /\ SameButCredentials(d1, d2) => probe.out[1] = probe.out[2]

----------------------------------------------------------------------------
\* MigrationRunner (src/migrate.go): the SQL-file runner of the dbx module.
\* A path is <<d, b>>: the file named b in sub-directory d of the migrations
\* directory, d = 0 being the directory itself.  Names are numbered in the
\* byte order sort.Strings compares them in, and the names of the files of
\* the directory itself sort before the names of its sub-directories
\* ("001_init.sql" < "tenants/001_init.sql").  One connection is configured.
MaxDirs == 1
MaxNames == 3
MaxSqlFiles == 3

Paths == (0..MaxDirs) \X (1..MaxNames)
Contents == {"ok", "bad"}

\* filepath.Base
Base(path) == path[2]

\* the order of sort.Strings on the full paths
PathLess(p1, p2) == p1[1] < p2[1] \/ (p1[1] = p2[1] /\ p1[2] < p2[2])

RECURSIVE sortStrings_Descending(_)
sortStrings_Descending(S) ==
    IF S = {} THEN <<>>
    ELSE LET m == CHOOSE x \in S : \A y \in S \ {x} : PathLess(y, x)
         IN <<m>> \o sortStrings_Descending(S \ {m})

RECURSIVE sortStrings(_)
sortStrings(S) ==
    IF S = {} THEN <<>>
    ELSE LET m == CHOOSE x \in S : \A y \in S \ {x} : PathLess(x, y)
         IN <<m>> \o sortStrings(S \ {m})

\* every path under the directory with the suffix .sql, sorted
getMigrationFiles == sortStrings(DOMAIN files)

mrOther == <<mainVars, probe, mxVars>>

\* A migration file is added to the directory between two runs.
AddFile(path, sql) ==
    /\ mrPc = "idle"
    /\ path \notin DOMAIN files
    /\ Cardinality(DOMAIN files) < MaxSqlFiles
    /\ files' = [f \in DOMAIN files \cup {path} |->
                    IF f = path THEN sql ELSE files[f]]
    /\ UNCHANGED <<dbxTable, dbxMigrations, executed, mrTodo, mrRan, mrPc,
                   mrRet>>
    /\ UNCHANGED mrOther

\* RunMigrations up to the loop over the files: runSQLMigrations lists the
\* files, returns nil when there is none, and creates dbx_migrations.
RunMigrations ==
    /\ mrPc = "idle"
    /\ mrRan' = <<>>
    /\ LET fs == getMigrationFiles
       IN IF fs = <<>>
          THEN /\ mrPc' = "done"
               /\ mrRet' = "nil"
               /\ UNCHANGED <<dbxTable, mrTodo>>
          ELSE /\ dbxTable' = TRUE
               /\ mrTodo' = fs
               /\ mrPc' = "files"
               /\ UNCHANGED mrRet
    /\ UNCHANGED <<files, dbxMigrations, executed>>
    /\ UNCHANGED mrOther

\* One iteration of runMigrationsForDatabase: a file whose base name is
\* recorded is skipped; otherwise its SQL and its record are one
\* transaction, and a failure ends the run with nothing of the file kept.
runMigrationFile ==
    /\ mrPc = "files"
    /\ mrTodo # <<>>
    /\ LET filename == Head(mrTodo)
       IN IF Base(filename) \in dbxMigrations
          THEN /\ mrTodo' = Tail(mrTodo)
               /\ UNCHANGED <<dbxMigrations, executed, mrRan, mrPc, mrRet>>
          ELSE IF files[filename] = "ok"
          THEN /\ executed' = Append(executed, filename)
               /\ mrRan' = Append(mrRan, filename)
               /\ dbxMigrations' = dbxMigrations \cup {Base(filename)}
               /\ mrTodo' = Tail(mrTodo)
               /\ UNCHANGED <<mrPc, mrRet>>
          ELSE /\ mrRet' = "ErrDatabase"
               /\ mrPc' = "done"
               /\ mrTodo' = <<>>
               /\ UNCHANGED <<dbxMigrations, executed, mrRan>>
    /\ UNCHANGED <<files, dbxTable>>
    /\ UNCHANGED mrOther

\* the loop ends: RunMigrations returns nil
RunMigrationsDone ==
    /\ mrPc = "files"
    /\ mrTodo = <<>>
    /\ mrPc' = "done"
    /\ mrRet' = "nil"
    /\ UNCHANGED <<files, dbxTable, dbxMigrations, executed, mrTodo, mrRan>>
    /\ UNCHANGED mrOther

\* the caller takes the result; the runner can be run again
RunMigrationsReturn ==
    /\ mrPc = "done"
    /\ mrPc' = "idle"
    /\ UNCHANGED <<files, dbxTable, dbxMigrations, executed, mrTodo, mrRan,
                   mrRet>>
    /\ UNCHANGED mrOther

InitFiles == Init /\ source = <<>>
NextFiles ==
    \/ \E path \in Paths, sql \in Contents : AddFile(path, sql)
    \/ RunMigrations
    \/ runMigrationFile
    \/ RunMigrationsDone
    \/ RunMigrationsReturn
SpecFiles == InitFiles /\ [][NextFiles]_vars

Count(path, seq) == Cardinality({i \in 1..Len(seq) : seq[i] = path})

\* C23: the files one run executes are executed in ascending order of their
\* paths, and a file whose SQL was executed and committed is recorded in
\* dbx_migrations and is never executed a second time, in this run or a
\* later one.
C23_OrderedOnce ==
    /\ \A i, j \in 1..Len(mrRan) : i < j => PathLess(mrRan[i], mrRan[j])
    /\ \A i \in 1..Len(executed) :
           /\ Base(executed[i]) \in dbxMigrations
           /\ Count(executed[i], executed) = 1

\* a second run has executed two files that were added after an earlier run
\* had executed one
C23_Witness ==
    /\ mrPc = "done"
    /\ mrRet = "nil"
    /\ Len(mrRan) >= 2
    /\ Len(executed) > Len(mrRan)

\* C30, as stated: when RunMigrations returns nil, every .sql file under
\* the directory, in whichever sub-directory, has been executed exactly
\* once.
C30_EveryFileOnce ==
    (mrPc = "done" /\ mrRet = "nil") =>
        \A path \in DOMAIN files : Count(path, executed) = 1

----------------------------------------------------------------------------
\* Metrics wrappers (metrics.go).  A tracker is nil (FALSE) or the
\* collectors in `metrics`; the wrapped operation is a function whose call
\* is counted in fnCalls and whose error is fnErr.
MaxOps == 3

FnErrors == {"nil", "ErrDatabase"}

\* the database label WithMetrics derives from the URL
extractDatabaseFromURL == "default"

RecordOperation_AlwaysSuccess(m, mx, database, operation, err) ==
    IF ~m THEN mx
    ELSE [operationsTotal |->
              [mx.operationsTotal EXCEPT
                   ![<<database, operation, "success">>] = @ + 1],
          operationDuration |->
              [mx.operationDuration EXCEPT ![<<database, operation>>] = @ + 1]]

\* (m *MigrationMetrics).RecordOperation: the collectors after the call
RecordOperation(m, mx, database, operation, err) ==
    IF ~m THEN mx
    ELSE LET status == IF err # "nil" THEN "failure" ELSE "success"
         IN [operationsTotal |->
                 [mx.operationsTotal EXCEPT
                      ![<<database, operation, status>>] = @ + 1],
             operationDuration |->
                 [mx.operationDuration EXCEPT
                      ![<<database, operation>>] = @ + 1]]

\* (m *MigrationMetrics).trackOperation as a transition of the collectors
\* and the call count, with the error it returns
trackOperationStep(m, database, operation, fnErr, err) ==
    /\ fnCalls < MaxOps
    /\ fnCalls' = fnCalls + 1
    /\ IF ~m
       THEN /\ err = fnErr
            /\ UNCHANGED metrics
       ELSE /\ metrics' = RecordOperation(m, metrics, database, operation,
                                          fnErr)
            /\ err = fnErr

trackOperation(m, database, operation, fnErr) ==
    /\ \E err \in FnErrors :
           /\ trackOperationStep(m, database, operation, fnErr, err)
           /\ probe' = [fn |-> "trackOperation",
                        in |-> <<m, database, operation, fnErr>>,
                        out |-> <<err>>]
    /\ UNCHANGED <<mainVars, mrVars>>

WithMetrics(m, operation, fnErr) ==
    /\ \E err \in FnErrors :
           /\ IF ~m
              THEN /\ fnCalls < MaxOps
                   /\ fnCalls' = fnCalls + 1
                   /\ err = fnErr
                   /\ UNCHANGED metrics
              ELSE trackOperationStep(m, extractDatabaseFromURL, operation,
                                      fnErr, err)
           /\ probe' = [fn |-> "WithMetrics",
                        in |-> <<m, extractDatabaseFromURL, operation,
                                 fnErr>>,
                        out |-> <<err>>]
    /\ UNCHANGED <<mainVars, mrVars>>

InitMetrics == Init /\ source = <<>>
NextMetrics ==
    \/ \E m \in BOOLEAN, database \in Databases, operation \in Operations,
          fnErr \in FnErrors : trackOperation(m, database, operation, fnErr)
    \/ \E m \in BOOLEAN, operation \in Operations, fnErr \in FnErrors :
          WithMetrics(m, operation, fnErr)
SpecMetrics == InitMetrics /\ [][NextMetrics]_vars

\* the collectors after exactly one operation with these labels was
\* recorded: one more on the counter with that status, none on the other
\* status, one more observation of the duration
OneRecorded(mx, database, operation, status) ==
    [operationsTotal |->
         [mx.operationsTotal EXCEPT
              ![<<database, operation, status>>] = @ + 1],
     operationDuration |->
         [mx.operationDuration EXCEPT ![<<database, operation>>] = @ + 1]]

\* C24: every call of trackOperation or WithMetrics calls the wrapped
\* operation exactly once and returns its error unchanged, with or without
\* a tracker; without a tracker nothing is recorded, and with one the call
\* adds exactly one to the operations counter, labelled success exactly
\* when the error is nil, and exactly one observation of the duration.
C24_PureObservers ==
    [][(fnCalls' # fnCalls \/ metrics' # metrics \/ probe' # probe) =>
          LET m == probe'.in[1]
              database == probe'.in[2]
              operation == probe'.in[3]
              fnErr == probe'.in[4]
              status == IF fnErr = "nil" THEN "success" ELSE "failure"
          IN /\ probe'.fn \in {"trackOperation", "WithMetrics"}
             /\ fnCalls' = fnCalls + 1
             /\ probe'.out = <<fnErr>>
             /\ metrics' = IF m
                           THEN OneRecorded(metrics, database, operation,
                                            status)
                           ELSE metrics]_vars

\* a failed operation was wrapped by WithMetrics with a tracker after a
\* successful one was wrapped without
C24_Witness ==
    /\ probe.fn = "WithMetrics"
    /\ probe.in[1]
    /\ probe.out = <<"ErrDatabase">>
    /\ metrics.operationsTotal[<<"default", "up", "failure">>] = 1
    /\ fnCalls = 2

----------------------------------------------------------------------------
\* The functions above, called in any order on any input; the migration
\* facade stays idle.
InitPure == Init /\ source = <<>>
NextPure == Startup \/ LoadConfig \/ SanitizePair
SpecPure == InitPure /\ [][NextPure]_vars

====
